---- MODULE Spec2Model ----
(***************************************************************************)
(* Model of decorators.py (Dispatcher) and descriptors.py (ValidationError *)
(* registry, TypeChecker descriptor, the validators registered on the      *)
(* `validate` dispatcher).                                                 *)
(***************************************************************************)
EXTENDS Integers, Sequences, FiniteSets, TLC

(***************************************************************************)
(* Bounds of the model.                                                    *)
(***************************************************************************)
MaxInstances == 2
MaxErrors == 2
MaxRegs == 3

(***************************************************************************)
(* Python values.  Every value is a record of one shape: t is the Python   *)
(* type, s the characters of a str, n the number of an int (units) or of a *)
(* float (thousandths).                                                    *)
(***************************************************************************)
PyVal(t, s, n) == [t |-> t, s |-> s, n |-> n]
None == PyVal("None", <<>>, 0)
PyStr(s) == PyVal("str", s, 0)
PyInt(n) == PyVal("int", <<>>, n)
PyFloat(thousandths) == PyVal("float", <<>>, thousandths)
NaN == PyVal("float_nan", <<>>, 0)
DateObj == PyVal("date", <<>>, 0)

\* float('inf') / float('-inf') of the default bounds, in thousandths
Inf == 1000000000
NegInf == 0 - Inf
\* an argument given as None (min_length, max_length)
Nil == 0 - 1

\* a list argument that may be None
NoneList == [some |-> FALSE, v |-> <<>>]
SomeList(l) == [some |-> TRUE, v |-> l]

isinstance_str(value) == value.t = "str"
isinstance_Real(value) == value.t \in {"int", "float", "float_nan"}
isinstance_date(value) == value.t = "date"
\* the number a Real stands for, in thousandths
Num(value) == IF value.t = "int" THEN value.n * 1000 ELSE value.n
\* Python truthiness of an optional length: None and 0 are falsy
Truthy(n) == n # Nil /\ n # 0

(***************************************************************************)
(* Outcome of a call: the exception it raises ("" when it returns) and the *)
(* value it returns.                                                       *)
(***************************************************************************)
NoRet == [is_ok |-> FALSE, error |-> <<>>]
Raise(e) == [exc |-> e, ret |-> NoRet]
Return(r) == [exc |-> "", ret |-> r]

(***************************************************************************)
(* ValidationError objects and the (is_ok, error) pairs of the validators. *)
(* The message is the f-string's template with the values interpolated.    *)
(***************************************************************************)
ValidationError(field_name, tmpl, value) ==
    [cls |-> "ValidationError", field_name |-> field_name,
     error_message |-> [tmpl |-> tmpl, attr |-> field_name, value |-> value]]
EmptyStr == [cls |-> "str", field_name |-> "",
             error_message |-> [tmpl |-> "", attr |-> "", value |-> None]]
Ok == Return([is_ok |-> TRUE, error |-> EmptyStr])
Fail(attr_name, tmpl, value) ==
    Return([is_ok |-> FALSE, error |-> ValidationError(attr_name, tmpl, value)])

(***************************************************************************)
(* Text values (tuples of characters) and date formats (tuples of          *)
(* directives and literal characters).                                     *)
(***************************************************************************)
s_ab == <<"a", "b">>
s_abc == <<"a", "b", "c">>
s_abcde == <<"a", "b", "c", "d", "e">>
s_brown == <<"b", "r", "o", "w", "n">>
s_red == <<"r", "e", "d">>
s_black == <<"b", "l", "a", "c", "k">>
s_green == <<"g", "r", "e", "e", "n">>
s_rose == <<"r", "o", "s", "e">>
s_20230101 == <<"2", "0", "2", "3", "0", "1", "0", "1">>
s_2023_01_01 == <<"2", "0", "2", "3", "-", "0", "1", "-", "0", "1">>
s_2023s01s01 == <<"2", "0", "2", "3", "/", "0", "1", "/", "0", "1">>
s_20230230 == <<"2", "0", "2", "3", "0", "2", "3", "0">>

fmt_Ymd == <<"%Y", "%m", "%d">>
fmt_Y_m_d == <<"%Y", "-", "%m", "-", "%d">>
fmt_YsMsD == <<"%Y", "/", "%m", "/", "%d">>
\* validate_date: the formats used when acceptable_formats is None
DefaultFormats == <<fmt_Ymd, fmt_Y_m_d>>

Digits == {"0", "1", "2", "3", "4", "5", "6", "7", "8", "9"}
DigitVal(c) ==
    CASE c = "0" -> 0 [] c = "1" -> 1 [] c = "2" -> 2 [] c = "3" -> 3
      [] c = "4" -> 4 [] c = "5" -> 5 [] c = "6" -> 6 [] c = "7" -> 7
      [] c = "8" -> 8 [] c = "9" -> 9

IsDigitAt(s, i) == i <= Len(s) /\ s[i] \in Digits
\* the number written by the n digits of s from position i
RECURSIVE NumAt(_, _, _)
NumAt(s, i, n) ==
    IF n = 0 THEN 0 ELSE NumAt(s, i, n - 1) * 10 + DigitVal(s[i + n - 1])

(***************************************************************************)
(* datetime.strptime: the format is compiled to a regular expression,      *)
(*   %Y -> \d\d\d\d                                                        *)
(*   %m -> 1[0-2]|0[1-9]|[1-9]                                             *)
(*   %d -> 3[01]|[12]\d|0[1-9]|[1-9]                                       *)
(* matched from the start of the text with backtracking; the first match   *)
(* in the order of the alternatives is taken, it must consume the whole    *)
(* text, and the fields must name a day of the calendar.                   *)
(* Alternatives(s, i, d): the ways directive d matches at position i, in   *)
(* the order the regular expression tries them, as <<length, number>>.     *)
(***************************************************************************)
Alternatives(s, i, d) ==
    LET two == IF IsDigitAt(s, i) /\ IsDigitAt(s, i + 1)
               THEN NumAt(s, i, 2) ELSE 0 - 1
        lead0 == IsDigitAt(s, i) /\ s[i] = "0"
        one == IF IsDigitAt(s, i) THEN NumAt(s, i, 1) ELSE 0 - 1
    IN  CASE d = "%Y" ->
               IF IsDigitAt(s, i) /\ IsDigitAt(s, i + 1)
                  /\ IsDigitAt(s, i + 2) /\ IsDigitAt(s, i + 3)
               THEN << <<4, NumAt(s, i, 4)>> >> ELSE <<>>
          [] d = "%m" ->
               (IF two \in 10..12 THEN << <<2, two>> >> ELSE <<>>)
               \o (IF lead0 /\ two \in 1..9 THEN << <<2, two>> >> ELSE <<>>)
               \o (IF one \in 1..9 THEN << <<1, one>> >> ELSE <<>>)
          [] d = "%d" ->
               (IF two \in 30..31 THEN << <<2, two>> >> ELSE <<>>)
               \o (IF two \in 10..29 THEN << <<2, two>> >> ELSE <<>>)
               \o (IF lead0 /\ two \in 1..9 THEN << <<2, two>> >> ELSE <<>>)
               \o (IF one \in 1..9 THEN << <<1, one>> >> ELSE <<>>)
          [] OTHER ->
               IF i <= Len(s) /\ s[i] = d THEN << <<1, 0>> >> ELSE <<>>

\* the matches of fmt[k..] at position i, in backtracking order, as
\* [end, Y, m, d] records; alts are the untried alternatives of fmt[k]
RECURSIVE Matches(_, _, _, _, _, _)
Matches(s, i, fmt, k, acc, alts) ==
    IF k > Len(fmt) THEN << [acc EXCEPT !.end = i] >>
    ELSE IF alts = <<>> THEN <<>>
    ELSE LET a == Head(alts)
             acc2 == CASE fmt[k] = "%Y" -> [acc EXCEPT !.Y = a[2]]
                       [] fmt[k] = "%m" -> [acc EXCEPT !.m = a[2]]
                       [] fmt[k] = "%d" -> [acc EXCEPT !.d = a[2]]
                       [] OTHER -> acc
             j == i + a[1]
             next == IF k + 1 > Len(fmt) THEN <<>>
                     ELSE Alternatives(s, j, fmt[k + 1])
         IN  Matches(s, j, fmt, k + 1, acc2, next)
             \o Matches(s, i, fmt, k, acc, Tail(alts))

IsLeap(y) == (y % 4 = 0 /\ y % 100 # 0) \/ y % 400 = 0
DaysInMonth(y, m) ==
    IF m = 2 THEN (IF IsLeap(y) THEN 29 ELSE 28)
    ELSE IF m \in {4, 6, 9, 11} THEN 30 ELSE 31

\* TRUE when datetime.strptime(s, fmt) returns, FALSE when it raises
\* ValueError; s is a str
strptime(s, fmt) ==
    LET first == IF fmt = <<>> THEN <<>> ELSE Alternatives(s, 1, fmt[1])
        found == IF fmt = <<>>
                 THEN << [end |-> 1, Y |-> 1900, m |-> 1, d |-> 1] >>
                 ELSE Matches(s, 1, fmt, 1,
                              [end |-> 1, Y |-> 1900, m |-> 1, d |-> 1], first)
    IN  /\ found # <<>>
        /\ found[1].end = Len(s) + 1
        /\ found[1].Y >= 1
        /\ found[1].d <= DaysInMonth(found[1].Y, found[1].m)

(***************************************************************************)
(* The validators of descriptors.py.  kw is the record of keyword          *)
(* arguments TypeChecker.__set__ passes to validate.                       *)
(***************************************************************************)
\* mutant: the default function accepts the value
validate_default_Accepts(type_, value, attr_name, kw) == Ok

\* the default function of the `validate` dispatcher
validate_default(type_, value, attr_name, kw) == Raise("KeyError")

validate_string(type_, value, attr_name, kw) ==
    IF value = None THEN Ok
    ELSE IF ~isinstance_str(value) THEN Fail(attr_name, "str_type", value)
    ELSE IF Truthy(kw.min_length) /\ Len(value.s) < kw.min_length
         THEN Fail(attr_name, "str_min_length", value)
    ELSE IF Truthy(kw.max_length) /\ Len(value.s) > kw.max_length
         THEN Fail(attr_name, "str_max_length", value)
    ELSE Ok

\* a validate_integer whose range includes its two bounds
validate_integer_Inclusive(type_, value, attr_name, kw) ==
    IF value = None THEN Ok
    ELSE IF ~isinstance_Real(value) THEN Fail(attr_name, "int_type", value)
    ELSE IF value.t = "float_nan" THEN Raise("ValueError")
    ELSE IF Num(value) % 1000 # 0 THEN Fail(attr_name, "int_type", value)
    ELSE IF ~(kw.min_value <= Num(value) /\ Num(value) <= kw.max_value)
         THEN Fail(attr_name, "int_range", None)
    ELSE Ok

validate_integer(type_, value, attr_name, kw) ==
    IF value = None THEN Ok
    ELSE IF ~isinstance_Real(value) THEN Fail(attr_name, "int_type", value)
    \* int(nan) raises ValueError while the condition is evaluated
    ELSE IF value.t = "float_nan" THEN Raise("ValueError")
    ELSE IF Num(value) % 1000 # 0 THEN Fail(attr_name, "int_type", value)
    ELSE IF ~(kw.min_value < Num(value) /\ Num(value) < kw.max_value)
         \* the message of this error does not carry the value
         THEN Fail(attr_name, "int_range", None)
    ELSE Ok

\* len(str(value).split(".")[1]) of a Real, 0 when str(value) has no "."
DecimalPlaces(value) ==
    IF value.t = "int" THEN 0
    ELSE IF value.n % 100 = 0 THEN 1
    ELSE IF value.n % 10 = 0 THEN 2
    ELSE 3

validate_float(type_, value, attr_name, kw) ==
    IF value = None THEN Ok
    ELSE IF ~isinstance_Real(value) THEN Fail(attr_name, "float_type", value)
    ELSE IF value.t = "float_nan"
            \/ ~(kw.min_value < Num(value) /\ Num(value) < kw.max_value)
         THEN Fail(attr_name, "float_range", value)
    ELSE IF kw.max_length # Nil /\ DecimalPlaces(value) > kw.max_length
         THEN Fail(attr_name, "float_places", value)
    ELSE Ok

validate_date(type_, value, attr_name, kw) ==
    IF value = None \/ isinstance_date(value) THEN Ok
    ELSE LET acceptable_formats ==
                 IF ~kw.acceptable_formats.some THEN DefaultFormats
                 ELSE kw.acceptable_formats.v
         IN  IF acceptable_formats = <<>>
             THEN Fail(attr_name, "date_format", value)
             \* strptime of a value that is not a str raises TypeError,
             \* which the loop does not catch
             ELSE IF ~isinstance_str(value) THEN Raise("TypeError")
             ELSE IF \E k \in 1..Len(acceptable_formats) :
                        strptime(value.s, acceptable_formats[k])
                  THEN Ok
             ELSE Fail(attr_name, "date_format", value)

\* value in enum_list
InList(value, l) == \E k \in 1..Len(l) : l[k] = value

\* mutant: a missing allow-list is reported as a failed validation
validate_enum_NoListFails(type_, value, attr_name, kw) ==
    IF value = None THEN Ok
    ELSE IF ~kw.enum_list.some \/ ~InList(value, kw.enum_list.v)
         THEN Fail(attr_name, "enum_member", value)
    ELSE Ok

validate_enum(type_, value, attr_name, kw) ==
    IF value = None THEN Ok
    ELSE IF ~kw.enum_list.some THEN Raise("ValueError")
    ELSE IF ~InList(value, kw.enum_list.v)
         THEN Fail(attr_name, "enum_member", value)
    ELSE Ok

(***************************************************************************)
(* Dispatcher (decorators.py).  A registry is a function from the          *)
(* registered keys to handlers; handlers are named by strings.  A handler  *)
(* that is not one of the validators is an opaque function: its result     *)
(* tells which function ran and with which arguments.                      *)
(***************************************************************************)
Apply(function_to_call, args, kw) ==
    CASE function_to_call = "validate" ->
             validate_default(args[1], args[2], args[3], kw)
      [] function_to_call = "validate_string" ->
             validate_string(args[1], args[2], args[3], kw)
      [] function_to_call = "validate_integer" ->
             validate_integer(args[1], args[2], args[3], kw)
      [] function_to_call = "validate_float" ->
             validate_float(args[1], args[2], args[3], kw)
      [] function_to_call = "validate_date" ->
             validate_date(args[1], args[2], args[3], kw)
      [] function_to_call = "validate_enum" ->
             validate_enum(args[1], args[2], args[3], kw)
      [] OTHER -> Return([by |-> function_to_call, args |-> args])

\* dict.get(key, default)
DictGet(d, key, default) == IF key \in DOMAIN d THEN d[key] ELSE default

\* the function Dispatcher.__call__ selects
Selected(reg, default_fn, args) == DictGet(reg, args[1], default_fn)

\* a __call__ that hands a call without arguments to the default function
Dispatcher__call___NoCheck(reg, default_fn, args, kw) ==
    IF Len(args) = 0 THEN Apply(default_fn, args, kw)
    ELSE Apply(Selected(reg, default_fn, args), args, kw)

Dispatcher__call__(reg, default_fn, args, kw) ==
    IF Len(args) = 0 THEN Raise("ValueError")
    ELSE Apply(Selected(reg, default_fn, args), args, kw)

\* the dict after  self.registry[key] = func
DictSet(d, key, val) ==
    [k \in DOMAIN d \cup {key} |-> IF k = key THEN val ELSE d[k]]

\* a register that forgets the functions registered under other keys
Dispatcher_register_Only(reg, key, func) == [k \in {key} |-> func]

\* mutant: a key that is registered keeps its first function
Dispatcher_register_KeepFirst(reg, key, func) ==
    IF key \in DOMAIN reg THEN reg ELSE DictSet(reg, key, func)

Dispatcher_register(reg, key, func) == DictSet(reg, key, func)

\* what the decorator returns: the function it was given
Dispatcher_register_returns(reg, key, func) == func

Dispatcher_get_function(reg, default_fn, key) == DictGet(reg, key, default_fn)

\* the registrations made on `validate` when descriptors.py is imported
ValidateRegistry ==
    [k \in {"str", "int", "float", "date", "enum"} |->
        CASE k = "str" -> "validate_string"
          [] k = "int" -> "validate_integer"
          [] k = "float" -> "validate_float"
          [] k = "date" -> "validate_date"
          [] k = "enum" -> "validate_enum"]

(***************************************************************************)
(* TypeChecker.__init__: the attributes of a field declaration made with   *)
(* the given arguments.  a is the record of the constructor's arguments.   *)
(***************************************************************************)
TypeChecker__init__(a) ==
    [type |-> a.type_,
     min_length |-> a.min_length,
     max_length |-> a.max_length,
     min_value |-> a.min_value,
     max_value |-> a.max_value,
     required |-> a.required,
     \* self.acceptable_date_formats = None, whatever the argument is
     acceptable_date_formats |-> NoneList,
     enum_list |-> a.enum_list]

\* the defaults of the constructor's arguments
Args(type_) ==
    [type_ |-> type_, min_length |-> Nil, max_length |-> Nil,
     min_value |-> NegInf, max_value |-> Inf, required |-> FALSE,
     acceptable_date_formats |-> NoneList, enum_list |-> NoneList]

\* the largest max_value and the largest max_length of the fields declared
\* to probe the bounds; the values assigned go one step past them
MaxCount == 3
MaxLen == 3
\* a str of n characters
StrOfLen(n) == PyStr([i \in 1..n |-> "a"])

EyeColors == <<PyStr(s_brown), PyStr(s_red), PyStr(s_black), PyStr(s_green)>>

(***************************************************************************)
(* Owner classes: each maps its field names to the arguments the           *)
(* TypeChecker of that field is declared with.                             *)
(***************************************************************************)
ClassNames ==
    {"Named", "Aged", "Born", "Paid", "Eyed", "Event", "Record", "Archive"}

ClassFields(c) ==
    CASE c = "Named" -> {"last_name"}
      [] c = "Aged" -> {"age"}
      [] c = "Born" -> {"dob"}
      [] c = "Paid" -> {"salary"}
      [] c = "Eyed" -> {"eye_color"}
      [] c = "Event" -> {"event"}
      [] c = "Record" -> {"raw", "tag"}
      [] c = "Archive" -> {"blob", "first_name"}
      [] c = "Counted" -> {"count"}
      [] c = "Titled" -> {"title"}
      [] c = "Prefixed" -> {"prefix"}
      [] c = "Capped" -> {"cap"}
      [] c = "Sealed" -> {"sealed"}

\* the arguments each field is declared with; numeric bounds in thousandths
Declared(name) ==
    CASE name = "first_name" ->
             [Args("str") EXCEPT !.min_length = 1, !.max_length = 6,
                                 !.required = TRUE]
      [] name = "last_name" ->
             [Args("str") EXCEPT !.min_length = 3, !.max_length = 4,
                                 !.required = TRUE]
      [] name = "dob" -> [Args("date") EXCEPT !.required = TRUE]
      [] name = "age" ->
             [Args("int") EXCEPT !.min_value = 0, !.max_value = 100000,
                                 !.required = TRUE]
      [] name = "salary" ->
             [Args("float") EXCEPT !.min_value = 0, !.max_value = 100000000,
                                   !.max_length = 2]
      [] name = "eye_color" ->
             [Args("enum") EXCEPT !.enum_list = SomeList(EyeColors)]
      [] name = "event" ->
             [Args("date") EXCEPT
                 !.acceptable_date_formats = SomeList(<<fmt_YsMsD>>)]
      [] name = "raw" -> Args("bytes")
      [] name = "blob" -> [Args("bytes") EXCEPT !.required = TRUE]
      [] name = "tag" -> Args("enum")
      [] name = "count" ->
             [Args("int") EXCEPT !.min_value = 0,
                                 !.max_value = MaxCount * 1000]
      [] name = "title" ->
             [Args("str") EXCEPT !.min_length = 2, !.max_length = MaxLen]
      [] name = "prefix" -> [Args("str") EXCEPT !.min_length = 2]
      [] name = "cap" -> [Args("str") EXCEPT !.max_length = MaxLen]
      [] name = "sealed" -> [Args("str") EXCEPT !.max_length = 0]

\* the values assigned to each field: null, values that pass, values that
\* fail a constraint, values of another type
Candidates(name) ==
    CASE name = "first_name" -> {None, PyStr(s_ab), PyInt(5)}
      [] name = "last_name" -> {None, PyStr(s_abc), PyStr(s_ab), PyInt(5)}
      [] name = "age" -> {None, PyInt(50), PyInt(100), PyStr(s_ab), NaN}
      [] name = "salary" ->
             {None, PyFloat(100500), PyFloat(100623), PyInt(0), PyStr(s_ab)}
      [] name = "dob" ->
             {None, PyStr(s_20230101), PyStr(s_2023s01s01), PyInt(20230101)}
      [] name = "event" ->
             {None, PyStr(s_20230101), PyStr(s_2023s01s01),
              PyStr(s_20230230)}
      [] name = "eye_color" ->
             {None, PyStr(s_brown), PyStr(s_rose), PyInt(5)}
      [] name = "tag" -> {None, PyStr(s_brown)}
      [] name = "raw" -> {None, PyInt(5)}
      [] name = "blob" -> {None, PyInt(5)}
      [] name = "count" -> {PyInt(n) : n \in (0 - 1)..(MaxCount + 1)}
      [] name \in {"title", "prefix", "cap", "sealed"} ->
             {StrOfLen(n) : n \in 0..(MaxLen + 1)}

Instances == 1..MaxInstances

VARIABLES
    cls,                            \* the owner class of this run
    fields,                         \* field name -> TypeChecker attributes
    log_missing_mandatory_values,   \* field name -> the one-shot flag
    values,                         \* field name -> TypeChecker.values
    live,                           \* ids of the live owner instances
    all,                            \* ValidationError.all
    registry,                       \* Dispatcher.registry
    default_function,               \* Dispatcher.default_function
    regLog,                         \* history: the register calls, in order
    lastCall,                       \* the last Dispatcher operation and its
                                    \*   outcome
    missing_appended,               \* history: field name -> number of
                                    \*   missing-value errors appended
    null_assigned,                  \* history: field name -> a null was
                                    \*   assigned to the field
    lastOp,                         \* the last operation and its outcome
    registry_view,                  \* the mapping get_registry() returned
    errors_view,                    \* the mapping get_errors() returned
    pc,                             \* thread -> its position in __set__
    saw,                            \* thread -> the flag value it read
    guard                           \* the thread the host lets write, 0
                                    \*   when none

vars == <<cls, fields, log_missing_mandatory_values, values, live, all,
          registry, default_function, regLog, lastCall, missing_appended,
          null_assigned, lastOp, registry_view, errors_view, pc, saw, guard>>

\* the threads writing at the same time
threadVars == <<pc, saw, guard>>
\* the state of the dispatcher
dispVars == <<registry, default_function, regLog, lastCall, registry_view>>
\* the state of the field declarations, their stores and the error registry
fieldVars == <<cls, fields, log_missing_mandatory_values, values, live, all,
               missing_appended, null_assigned, lastOp, errors_view,
               threadVars>>

EmptyDict == [k \in {} |-> 0]

\* op: the operation; field, inst, value: its arguments; exc: the exception
\* it raised ("" when it returned); had: the instance had an entry in a
\* store the operation works on, before it; text: the text it returned
Op(op, field, inst, value, exc, had, text) ==
    [op |-> op, field |-> field, inst |-> inst, value |-> value,
     exc |-> exc, had |-> had, text |-> text]

\* op: the Dispatcher operation; args: its positional arguments; exc: the
\* exception it raised ("" when it returned); by: the function it invoked
\* ("" when none); with: the arguments that function received
\* ret: the function the operation returned, "" when it returned none
Call(op, args, exc, by, with, ret) ==
    [op |-> op, args |-> args, exc |-> exc, by |-> by, with |-> with,
     ret |-> ret]

(***************************************************************************)
(* types.MappingProxyType: a mapping that reads through to the dict it was *)
(* made from and has no operation that writes.  held: the mapping has been *)
(* obtained; proxy: it reads through; snap: the items it holds itself      *)
(* (none for a proxy).                                                     *)
(***************************************************************************)
NoView == [held |-> FALSE, proxy |-> TRUE, snap |-> EmptyDict]
MappingProxyType(d) == [held |-> TRUE, proxy |-> TRUE, snap |-> EmptyDict]
\* a copy of the dict, as dict(d) or d.copy() makes
DictCopy(d) == [held |-> TRUE, proxy |-> FALSE, snap |-> d]
\* the items the mapping shows, d being the dict it was made from
ViewShows(view, d) == IF view.proxy THEN d ELSE view.snap

(***************************************************************************)
(* ValidationError.all is a defaultdict(list).                             *)
(***************************************************************************)
\* ValidationError.all[name].append(error)
\* an append that puts the new error in front of the field's list
AppendError_Front(d, name, error) ==
    DictSet(d, name, IF name \in DOMAIN d THEN <<error>> \o d[name]
                     ELSE <<error>>)

AppendError(d, name, error) ==
    DictSet(d, name, IF name \in DOMAIN d THEN Append(d[name], error)
                     ELSE <<error>>)

RECURSIVE SumLen(_, _)
SumLen(d, keys) ==
    IF keys = {} THEN 0
    ELSE LET k == CHOOSE x \in keys : TRUE
         IN  Len(d[k]) + SumLen(d, keys \ {k})
\* the number of errors in the registry
TotalErrors(d) == SumLen(d, DOMAIN d)

\* ValidationError.clear_errors
clear_errors(d) == EmptyDict

(***************************************************************************)
(* TypeChecker.values: id(instance) -> (weak reference, value).  At most   *)
(* one weak reference to an instance is held by a field (a re-write drops  *)
(* the previous one), so a weak reference is named by its referent.        *)
(***************************************************************************)
weakref_ref(instance) == instance

\* self.values[id(instance)] = weakref.ref(instance, ...), value
\* a store that keeps one value for the field, whatever the instance
StoreValue_Shared(vals, instance, value) ==
    [k \in DOMAIN vals \cup {instance} |->
        [ref |-> weakref_ref(k), value |-> value]]

StoreValue(vals, instance, value) ==
    DictSet(vals, instance, [ref |-> weakref_ref(instance), value |-> value])

\* TypeChecker._finalise_object on the values of one field
reverse_lookup(vals, instance_weakref) ==
    {key \in DOMAIN vals : vals[key].ref = instance_weakref}

\* mutant: the reverse lookup is not filtered by the weak reference
_finalise_object_Unfiltered(vals, instance_weakref) ==
    LET key == CHOOSE k \in DOMAIN vals :
                   \A j \in DOMAIN vals : k >= j
    IN  [k \in DOMAIN vals \ {key} |-> vals[k]]

_finalise_object(vals, instance_weakref) ==
    LET key == CHOOSE k \in reverse_lookup(vals, instance_weakref) : TRUE
    IN  [k \in DOMAIN vals \ {key} |-> vals[k]]

\* mutant: the weak reference is made without the callback
HoldsRef_NoCallback(vals, instance) == FALSE

\* the store holds a weak reference to the instance, whose callback runs
\* when the instance is collected
HoldsRef(vals, instance) == reverse_lookup(vals, weakref_ref(instance)) # {}

\* mutant: an instance without an entry reads as a marker of its own
TypeChecker__get___Marker(vals, instance) ==
    IF instance \in DOMAIN vals THEN vals[instance].value
    ELSE PyVal("absent", <<>>, 0)

\* TypeChecker.__get__ through an instance
TypeChecker__get__(vals, instance) ==
    IF instance \in DOMAIN vals THEN vals[instance].value ELSE None

\* mutant: the flag is not flipped
FlagAfterLogging_Stays(flag) == flag

\* the flag after the first missing value has been logged
FlagAfterLogging(flag) == FALSE

\* the keyword arguments __set__ passes to validate
Kwargs(self) ==
    [min_value |-> self.min_value, max_value |-> self.max_value,
     min_length |-> self.min_length, max_length |-> self.max_length,
     acceptable_formats |-> self.acceptable_date_formats,
     enum_list |-> self.enum_list]

(***************************************************************************)
(* TypeChecker.__set__ of field `name` on `instance`: the exception raised *)
(* ("" when the write returns) and the flag, the registry and the values   *)
(* of the field after it.                                                  *)
(***************************************************************************)
TypeChecker__set__(name, instance, value) ==
    LET self == fields[name]
        flag == log_missing_mandatory_values[name]
        vals == values[name]
    IN  IF value = None /\ self.required
        THEN [exc |-> "",
              flag |-> IF flag THEN FlagAfterLogging(flag) ELSE flag,
              all |-> IF flag
                      THEN AppendError(all, name,
                               ValidationError(name, "mandatory", None))
                      ELSE all,
              vals |-> StoreValue(vals, instance, value)]
        ELSE LET out == Dispatcher__call__(registry, default_function,
                            <<self.type, value, name>>, Kwargs(self))
             IN  IF out.exc # ""
                 THEN [exc |-> out.exc, flag |-> flag, all |-> all,
                       vals |-> vals]
                 ELSE [exc |-> "", flag |-> flag,
                       all |-> IF ~out.ret.is_ok
                               THEN AppendError(all, name, out.ret.error)
                               ELSE all,
                       vals |-> StoreValue(vals, instance, value)]

(***************************************************************************)
(* json.dumps / json.loads on a dict of lists.  The text is a tuple of     *)
(* tokens: punctuation and string literals (white space carries nothing).  *)
(* A member of a list that is not a str (a ValidationError object) is not  *)
(* serializable.  The dict keeps no key order here; the keys are written   *)
(* in an arbitrary fixed order, which a parsed mapping does not show.      *)
(***************************************************************************)
Punct(c) == [k |-> c, name |-> "", msg |-> EmptyStr.error_message]
KeyTok(name) == [k |-> "str", name |-> name, msg |-> EmptyStr.error_message]
StrTok(item) == [k |-> "str", name |-> "", msg |-> item.error_message]

Serializable(d) ==
    \A name \in DOMAIN d : \A k \in 1..Len(d[name]) : d[name][k].cls = "str"

RECURSIVE DumpItems(_, _)
DumpItems(l, k) ==
    IF k > Len(l) THEN <<>>
    ELSE (IF k > 1 THEN <<Punct(",")>> ELSE <<>>)
         \o <<StrTok(l[k])>> \o DumpItems(l, k + 1)

RECURSIVE DumpMembers(_, _, _)
DumpMembers(d, keys, first) ==
    IF keys = {} THEN <<>>
    ELSE LET name == CHOOSE x \in keys : TRUE
         IN  (IF first THEN <<>> ELSE <<Punct(",")>>)
             \o <<KeyTok(name), Punct(":"), Punct("[")>>
             \o DumpItems(d[name], 1) \o <<Punct("]")>>
             \o DumpMembers(d, keys \ {name}, FALSE)

json_dumps(d) ==
    IF ~Serializable(d) THEN [exc |-> "TypeError", text |-> <<>>]
    ELSE [exc |-> "",
          text |-> <<Punct("{")>> \o DumpMembers(d, DOMAIN d, TRUE)
                   \o <<Punct("}")>>]

\* the members of the list that starts at token p (after its "["), and the
\* position after its "]"
RECURSIVE LoadItems(_, _, _)
LoadItems(text, p, acc) ==
    IF text[p].k = "]" THEN [list |-> acc, next |-> p + 1]
    ELSE IF text[p].k = "," THEN LoadItems(text, p + 1, acc)
    ELSE LoadItems(text, p + 1, Append(acc, text[p].msg))

RECURSIVE LoadMembers(_, _, _)
LoadMembers(text, p, acc) ==
    IF text[p].k = "}" THEN acc
    ELSE IF text[p].k = "," THEN LoadMembers(text, p + 1, acc)
    ELSE LET items == LoadItems(text, p + 3, <<>>)
         IN  LoadMembers(text, items.next,
                         DictSet(acc, text[p].name, items.list))

\* the mapping of field names to lists of messages the text parses to
json_loads(text) == LoadMembers(text, 2, EmptyDict)

\* ValidationError.to_json: json.dumps(cls.get_errors().copy(), indent=4)
to_json(d) == json_dumps(d)

(***************************************************************************)
(* The state after descriptors.py is imported and the owner class defined. *)
(***************************************************************************)
Init ==
    /\ cls \in ClassNames
    /\ fields = [n \in ClassFields(cls) |-> TypeChecker__init__(Declared(n))]
    /\ log_missing_mandatory_values = [n \in ClassFields(cls) |-> TRUE]
    /\ values = [n \in ClassFields(cls) |-> EmptyDict]
    /\ live = {}
    /\ all = EmptyDict
    /\ registry = ValidateRegistry
    /\ default_function = "validate"
    /\ regLog = <<>>
    /\ lastCall = Call("init", <<>>, "", "", <<>>, "")
    /\ missing_appended = [n \in ClassFields(cls) |-> 0]
    /\ null_assigned = [n \in ClassFields(cls) |-> FALSE]
    /\ lastOp = Op("init", "", 0, None, "", FALSE, <<>>)
    /\ registry_view = NoView
    /\ errors_view = NoView
    /\ pc = EmptyDict
    /\ saw = EmptyDict
    /\ guard = 0

\* an owner instance is created; the id of a collected instance may be reused
New(i) ==
    /\ i \notin live
    /\ live' = live \cup {i}
    /\ lastOp' = Op("new", "", i, None, "", FALSE, <<>>)
    /\ UNCHANGED <<cls, fields, log_missing_mandatory_values, values, all,
                   dispVars, missing_appended,
                   null_assigned, errors_view, threadVars>>

\* instance.name = value
Set(name, i, value) ==
    LET r == TypeChecker__set__(name, i, value)
        missing == value = None /\ fields[name].required
    IN  /\ i \in live
        /\ TotalErrors(r.all) <= MaxErrors
        /\ log_missing_mandatory_values' =
               [log_missing_mandatory_values EXCEPT ![name] = r.flag]
        /\ all' = r.all
        /\ values' = [values EXCEPT ![name] = r.vals]
        /\ missing_appended' =
               IF missing /\ r.all # all
               THEN [missing_appended EXCEPT ![name] = @ + 1]
               ELSE missing_appended
        /\ null_assigned' =
               IF missing THEN [null_assigned EXCEPT ![name] = TRUE]
               ELSE null_assigned
        /\ lastOp' = Op("set", name, i, value, r.exc,
                        i \in DOMAIN values[name], <<>>)
        /\ UNCHANGED <<cls, fields, live, dispVars, errors_view, threadVars>>

\* the last reference to the instance goes away: the callback of every
\* weak reference to it runs
Collect(i) ==
    /\ i \in live
    /\ live' = live \ {i}
    /\ values' = [n \in DOMAIN values |->
                     IF HoldsRef(values[n], i)
                     THEN _finalise_object(values[n], weakref_ref(i))
                     ELSE values[n]]
    /\ lastOp' = Op("collect", "", i, None, "",
                    \E n \in DOMAIN values : i \in DOMAIN values[n], <<>>)
    /\ UNCHANGED <<cls, fields, log_missing_mandatory_values, all, dispVars,
                   missing_appended, null_assigned, errors_view,
                   threadVars>>

\* ValidationError.clear_errors()
ClearErrors ==
    /\ all' = clear_errors(all)
    /\ lastOp' = Op("clear_errors", "", 0, None, "", FALSE, <<>>)
    /\ UNCHANGED <<cls, fields, log_missing_mandatory_values, values, live,
                   dispVars, missing_appended,
                   null_assigned, errors_view, threadVars>>

\* ValidationError.to_json()
ToJson ==
    /\ lastOp' = Op("to_json", "", 0, None, to_json(all).exc, FALSE,
                    to_json(all).text)
    /\ UNCHANGED <<cls, fields, log_missing_mandatory_values, values, live,
                   all, dispVars, missing_appended,
                   null_assigned, errors_view, threadVars>>

Next ==
    \/ \E i \in Instances : New(i)
    \/ \E n \in DOMAIN fields, i \in Instances :
           \E v \in Candidates(n) : Set(n, i, v)
    \/ \E i \in Instances : Collect(i)
    \/ ClearErrors
    \/ ToJson

Spec == Init /\ [][Next]_vars

(***************************************************************************)
(* Owner classes whose one field is declared with bounds, written through  *)
(* one instance with values on, inside and one step outside the bounds.    *)
(***************************************************************************)
BoundaryClasses == {"Counted", "Titled", "Prefixed", "Capped", "Sealed"}
OneInstance == {1}

InitB ==
    /\ cls \in BoundaryClasses
    /\ fields = [n \in ClassFields(cls) |-> TypeChecker__init__(Declared(n))]
    /\ log_missing_mandatory_values = [n \in ClassFields(cls) |-> TRUE]
    /\ values = [n \in ClassFields(cls) |-> EmptyDict]
    /\ live = {}
    /\ all = EmptyDict
    /\ registry = ValidateRegistry
    /\ default_function = "validate"
    /\ regLog = <<>>
    /\ lastCall = Call("init", <<>>, "", "", <<>>, "")
    /\ missing_appended = [n \in ClassFields(cls) |-> 0]
    /\ null_assigned = [n \in ClassFields(cls) |-> FALSE]
    /\ lastOp = Op("init", "", 0, None, "", FALSE, <<>>)
    /\ registry_view = NoView
    /\ errors_view = NoView
    /\ pc = EmptyDict
    /\ saw = EmptyDict
    /\ guard = 0

NextB ==
    \/ \E i \in OneInstance : New(i)
    \/ \E n \in DOMAIN fields, i \in OneInstance :
           \E v \in Candidates(n) : Set(n, i, v)
    \/ \E i \in OneInstance : Collect(i)
    \/ ClearErrors

SpecB == InitB /\ [][NextB]_vars

(***************************************************************************)
(* The registry read through the mapping get_errors() returns.             *)
(***************************************************************************)
\* a get_errors that hands out a copy of the registry
get_errors_Copy(d) == DictCopy(d)

\* ValidationError.get_errors
get_errors(d) == MappingProxyType(d)

\* d[key] on a defaultdict(list): a key that is missing is inserted with a
\* new empty list, which is the value returned
defaultdict__getitem__(d, key) ==
    IF key \in DOMAIN d THEN d ELSE DictSet(d, key, <<>>)

ViewedClasses == {"Named", "Archive"}

InitE ==
    /\ cls \in ViewedClasses
    /\ fields = [n \in ClassFields(cls) |-> TypeChecker__init__(Declared(n))]
    /\ log_missing_mandatory_values = [n \in ClassFields(cls) |-> TRUE]
    /\ values = [n \in ClassFields(cls) |-> EmptyDict]
    /\ live = {}
    /\ all = EmptyDict
    /\ registry = ValidateRegistry
    /\ default_function = "validate"
    /\ regLog = <<>>
    /\ lastCall = Call("init", <<>>, "", "", <<>>, "")
    /\ missing_appended = [n \in ClassFields(cls) |-> 0]
    /\ null_assigned = [n \in ClassFields(cls) |-> FALSE]
    /\ lastOp = Op("init", "", 0, None, "", FALSE, <<>>)
    /\ registry_view = NoView
    /\ errors_view = NoView
    /\ pc = EmptyDict
    /\ saw = EmptyDict
    /\ guard = 0

\* view = ValidationError.get_errors(); the caller keeps the mapping
GetErrors ==
    /\ errors_view' = get_errors(all)
    /\ lastOp' = Op("get_errors", "", 0, None, "", FALSE, <<>>)
    /\ UNCHANGED <<cls, fields, log_missing_mandatory_values, values, live,
                   all, dispVars, missing_appended, null_assigned,
                   threadVars>>

\* view[name]: the mapping hands the subscript to the dict it is made from
ViewGetItem(name) ==
    LET target == ViewShows(errors_view, all)
        after == defaultdict__getitem__(target, name)
    IN  /\ errors_view.held
        /\ IF errors_view.proxy
           THEN all' = after /\ errors_view' = errors_view
           ELSE all' = all
                /\ errors_view' = [errors_view EXCEPT !.snap = after]
        /\ lastOp' = Op("view_getitem", name, 0, None, "",
                        name \in DOMAIN target, <<>>)
        /\ UNCHANGED <<cls, fields, log_missing_mandatory_values, values,
                       live, dispVars, missing_appended, null_assigned,
                       threadVars>>

\* view.get(name): dict.get does not call __missing__
ViewGet(name) ==
    /\ errors_view.held
    /\ lastOp' = Op("view_get", name, 0, None, "",
                    name \in DOMAIN ViewShows(errors_view, all), <<>>)
    /\ UNCHANGED <<cls, fields, log_missing_mandatory_values, values, live,
                   all, dispVars, missing_appended, null_assigned,
                   errors_view, threadVars>>

\* view[name] = []  and  del view[name]: a mappingproxy has neither
\* __setitem__ nor __delitem__
ErrorsViewWrite(op, name) ==
    /\ errors_view.held
    /\ lastOp' = Op(op, name, 0, None, "TypeError",
                    name \in DOMAIN ViewShows(errors_view, all), <<>>)
    /\ UNCHANGED <<cls, fields, log_missing_mandatory_values, values, live,
                   all, dispVars, missing_appended, null_assigned,
                   errors_view, threadVars>>

NextE ==
    \/ \E i \in OneInstance : New(i)
    \/ \E n \in DOMAIN fields, i \in OneInstance :
           \E v \in Candidates(n) : Set(n, i, v)
    \/ \E i \in OneInstance : Collect(i)
    \/ ClearErrors
    \/ GetErrors
    \/ \E n \in DOMAIN fields : ViewGetItem(n)
    \/ \E n \in DOMAIN fields : ViewGet(n)
    \/ \E op \in {"view_setitem", "view_delitem"}, n \in DOMAIN fields :
           ErrorsViewWrite(op, n)

SpecE == InitE /\ [][NextE]_vars

(***************************************************************************)
(* Threads that assign None to a required field at the same time.  A write *)
(* is the statements of case 1 of __set__, one step each: the test of the  *)
(* flag, the assignment to the flag, the append to the registry, the store *)
(* of the value.  The code takes no lock; a host that serializes the       *)
(* writes lets one thread at a time run __set__ from its call to its       *)
(* return.  guard is Nil when the host does not serialize, else the thread *)
(* it lets write (0: none).  Thread t writes through instance t.           *)
(***************************************************************************)
MaxThreads == 2
Threads == 1..MaxThreads
ThreadedClasses == {"Named", "Aged", "Born", "Archive"}
Idle == [at |-> "idle", name |-> ""]
At(t, at) == pc[t].at = at

\* the host lets thread t start a write, and the guard after it did
HostLets(t) == guard = Nil \/ guard = 0
HostTakes(t) == IF guard = Nil THEN Nil ELSE t
\* the guard after the write of thread t returned
HostReleases(t) == IF guard = t THEN 0 ELSE guard

InitC ==
    /\ cls \in ThreadedClasses
    /\ fields = [n \in ClassFields(cls) |-> TypeChecker__init__(Declared(n))]
    /\ log_missing_mandatory_values = [n \in ClassFields(cls) |-> TRUE]
    /\ values = [n \in ClassFields(cls) |-> EmptyDict]
    /\ live = Threads
    /\ all = EmptyDict
    /\ registry = ValidateRegistry
    /\ default_function = "validate"
    /\ regLog = <<>>
    /\ lastCall = Call("init", <<>>, "", "", <<>>, "")
    /\ missing_appended = [n \in ClassFields(cls) |-> 0]
    /\ null_assigned = [n \in ClassFields(cls) |-> FALSE]
    /\ lastOp = Op("init", "", 0, None, "", FALSE, <<>>)
    /\ registry_view = NoView
    /\ errors_view = NoView
    /\ pc = [t \in Threads |-> Idle]
    /\ saw = [t \in Threads |-> FALSE]
    /\ guard \in {Nil, 0}

\* thread t calls  instance.name = None  on a required field
Begin(t, name) ==
    /\ At(t, "idle")
    /\ fields[name].required
    /\ HostLets(t)
    /\ guard' = HostTakes(t)
    /\ pc' = [pc EXCEPT ![t] = [at |-> "test", name |-> name]]
    /\ UNCHANGED <<cls, fields, log_missing_mandatory_values, values, live,
                   all, dispVars, missing_appended, null_assigned, lastOp,
                   errors_view, saw>>

\* if self.log_missing_mandatory_values:
TestFlag(t) ==
    /\ At(t, "test")
    /\ saw' = [saw EXCEPT ![t] = log_missing_mandatory_values[pc[t].name]]
    /\ pc' = [pc EXCEPT ![t].at = IF saw'[t] THEN "flip" ELSE "store"]
    /\ UNCHANGED <<cls, fields, log_missing_mandatory_values, values, live,
                   all, dispVars, missing_appended, null_assigned, lastOp,
                   errors_view, guard>>

\* self.log_missing_mandatory_values = False
Flip(t) ==
    /\ At(t, "flip")
    /\ log_missing_mandatory_values' =
           [log_missing_mandatory_values EXCEPT
               ![pc[t].name] = FlagAfterLogging(@)]
    /\ pc' = [pc EXCEPT ![t].at = "append"]
    /\ UNCHANGED <<cls, fields, values, live, all, dispVars,
                   missing_appended, null_assigned, lastOp, errors_view,
                   saw, guard>>

\* ValidationError.all[self.attr_name].append(error)
AppendMissing(t) ==
    LET name == pc[t].name
        after == AppendError(all, name,
                             ValidationError(name, "mandatory", None))
    IN  /\ At(t, "append")
        /\ TotalErrors(after) <= MaxErrors
        /\ all' = after
        /\ missing_appended' = [missing_appended EXCEPT ![name] = @ + 1]
        /\ pc' = [pc EXCEPT ![t].at = "store"]
        /\ UNCHANGED <<cls, fields, log_missing_mandatory_values, values,
                       live, dispVars, null_assigned, lastOp, errors_view,
                       saw, guard>>

\* self.values[id(instance)] = weakref.ref(...), value; return
Store(t) ==
    LET name == pc[t].name
    IN  /\ At(t, "store")
        /\ values' = [values EXCEPT ![name] = StoreValue(@, t, None)]
        /\ null_assigned' = [null_assigned EXCEPT ![name] = TRUE]
        /\ lastOp' = Op("set", name, t, None, "", t \in DOMAIN values[name],
                        <<>>)
        /\ pc' = [pc EXCEPT ![t] = Idle]
        /\ saw' = [saw EXCEPT ![t] = FALSE]
        /\ guard' = HostReleases(t)
        /\ UNCHANGED <<cls, fields, log_missing_mandatory_values, live, all,
                       dispVars, missing_appended, errors_view>>

NextC ==
    \/ \E t \in Threads, n \in DOMAIN fields : Begin(t, n)
    \/ \E t \in Threads : TestFlag(t)
    \/ \E t \in Threads : Flip(t)
    \/ \E t \in Threads : AppendMissing(t)
    \/ \E t \in Threads : Store(t)

SpecC == InitC /\ [][NextC]_vars

(***************************************************************************)
(* A Dispatcher on its own, as instantiate_dispatcher builds it: a default *)
(* function and functions registered under string keys.                    *)
(***************************************************************************)
MaxArgs == 2
Keys == {"a", "b", "x"}
Functions == {"a", "b"}
NoKwargs == [k \in {} |-> 0]

\* the argument tuples of a call: up to MaxArgs keys
ArgTuples == UNION {[1..n -> Keys] : n \in 0..MaxArgs}

InitD ==
    /\ cls = ""
    /\ fields = EmptyDict
    /\ log_missing_mandatory_values = EmptyDict
    /\ values = EmptyDict
    /\ live = {}
    /\ all = EmptyDict
    /\ missing_appended = EmptyDict
    /\ null_assigned = EmptyDict
    /\ lastOp = Op("init", "", 0, None, "", FALSE, <<>>)
    /\ registry_view = NoView
    /\ errors_view = NoView
    /\ pc = EmptyDict
    /\ saw = EmptyDict
    /\ guard = 0
    /\ registry = EmptyDict
    /\ default_function = "default"
    /\ regLog = <<>>
    /\ lastCall = Call("init", <<>>, "", "", <<>>, "")

\* @dispatcher.register(key) applied to func
Register(key, func) ==
    /\ Len(regLog) < MaxRegs
    /\ registry' = Dispatcher_register(registry, key, func)
    /\ regLog' = Append(regLog, <<key, func>>)
    /\ lastCall' = Call("register", <<key>>, "", "", <<>>,
                        Dispatcher_register_returns(registry, key, func))
    /\ UNCHANGED <<default_function, registry_view, fieldVars>>

\* dispatcher(*args)
DoCall(args) ==
    LET out == Dispatcher__call__(registry, default_function, args, NoKwargs)
    IN  /\ lastCall' = IF out.exc # "" THEN Call("call", args, out.exc, "", <<>>, "")
                       ELSE Call("call", args, "", out.ret.by, out.ret.args,
                                 "")
        /\ UNCHANGED <<registry, default_function, regLog, registry_view,
                       fieldVars>>

\* dispatcher.get_function(key)
GetFunction(key) ==
    /\ lastCall' = Call("get_function", <<key>>, "", "", <<>>,
                        Dispatcher_get_function(registry, default_function,
                                                key))
    /\ UNCHANGED <<registry, default_function, regLog, registry_view,
                   fieldVars>>

\* a get_registry that hands out a copy of the registrations
Dispatcher_get_registry_Copy(reg) == DictCopy(reg)

Dispatcher_get_registry(reg) == MappingProxyType(reg)

\* dispatcher.get_registry(); the caller keeps the mapping returned
GetRegistry ==
    /\ registry_view' = Dispatcher_get_registry(registry)
    /\ lastCall' = Call("get_registry", <<>>, "", "", <<>>, "")
    /\ UNCHANGED <<registry, default_function, regLog, fieldVars>>

\* view[key] = func  and  del view[key]  on the mapping returned: a
\* mappingproxy has neither __setitem__ nor __delitem__
ViewWrite(op, key) ==
    /\ registry_view.held
    /\ lastCall' = Call(op, <<key>>, "TypeError", "", <<>>, "")
    /\ UNCHANGED <<registry, default_function, regLog, registry_view,
                   fieldVars>>

NextD ==
    \/ \E key \in Keys, func \in Functions : Register(key, func)
    \/ \E args \in ArgTuples : DoCall(args)
    \/ \E key \in Keys : GetFunction(key)
    \/ GetRegistry
    \/ \E op \in {"view_setitem", "view_delitem"}, key \in Keys :
           ViewWrite(op, key)

SpecD == InitD /\ [][NextD]_vars

(***************************************************************************)
(* Properties.                                                             *)
(***************************************************************************)
\* the errors recorded under a field name
ErrorsOf(d, name) == IF name \in DOMAIN d THEN d[name] ELSE <<>>

\* the step is the write  inst.name = value  (every operation sets lastOp)
IsSet == lastOp'.op = "set"

\* the write reaches validation (it is not a missing mandatory value)
ReachesValidation(name, value) == value # None \/ ~fields[name].required

\* the value is not of the declared kind
TypeMismatch(type_, value) ==
    CASE type_ = "str" -> value.t \notin {"None", "str"}
      [] type_ = "int" ->
             value.t \notin {"None", "int"}
             /\ ~(value.t = "float" /\ value.n % 1000 = 0)
      [] type_ = "float" -> value.t \notin {"None", "int", "float"}
      [] type_ = "date" -> value.t \notin {"None", "date", "str"}
      [] OTHER -> FALSE

\* the validators of the declared kind report a failure for the value
Rejected(name, value) ==
    LET out == Dispatcher__call__(registry, default_function,
                   <<fields[name].type, value, name>>, Kwargs(fields[name]))
    IN  out.exc = "" /\ ~out.ret.is_ok

\* the kinds C1 is about: text, integer, decimal, date, enum with allow-list
ValidatedKind(name) ==
    \/ fields[name].type \in {"str", "int", "float", "date"}
    \/ fields[name].type = "enum" /\ fields[name].enum_list.some

\* exactly one error was appended under the name, and nothing else changed
OneErrorAppended(name) ==
    /\ Len(ErrorsOf(all', name)) = Len(ErrorsOf(all, name)) + 1
    /\ SubSeq(ErrorsOf(all', name), 1, Len(ErrorsOf(all, name)))
           = ErrorsOf(all, name)
    /\ ErrorsOf(all', name)[Len(ErrorsOf(all', name))].field_name = name
    /\ \A m \in DOMAIN all \ {name} : m \in DOMAIN all' /\ all'[m] = all[m]
    /\ DOMAIN all' = DOMAIN all \cup {name}

\* C1: a write of a value that is a type mismatch, a length/range
\* violation, a format mismatch or an enum non-member returns without
\* raising, appends exactly one error under the field's name, and a
\* following read through the instance returns the value assigned.
C1_ValidationNeverInterrupts ==
    [][(/\ IsSet
        /\ ValidatedKind(lastOp'.field)
        /\ lastOp'.value # None
        /\ \/ TypeMismatch(fields[lastOp'.field].type, lastOp'.value)
           \/ Rejected(lastOp'.field, lastOp'.value))
       => /\ lastOp'.exc = ""
          /\ OneErrorAppended(lastOp'.field)
          /\ TypeChecker__get__(values'[lastOp'.field], lastOp'.inst)
                 = lastOp'.value]_vars

\* C2: for a required field, the number of missing-value errors ever
\* appended is 1 when a null was assigned and 0 otherwise, whichever
\* instances wrote and whether or not the registry was cleared in between;
\* a null write still stores the null for its instance.
C2_MissingLoggedOnce ==
    \A name \in DOMAIN fields :
        fields[name].required =>
            /\ missing_appended[name] = IF null_assigned[name] THEN 1 ELSE 0
            /\ (lastOp.op = "set" /\ lastOp.field = name
                /\ lastOp.value = None)
               => /\ lastOp.exc = ""
                  /\ lastOp.inst \in DOMAIN values[name]
                  /\ values[name][lastOp.inst].value = None

\* a second instance assigns null after the registry was cleared: nothing
\* is appended
C2_Witness ==
    /\ lastOp.op = "set" /\ lastOp.value = None /\ ~lastOp.had
    /\ fields[lastOp.field].required
    /\ missing_appended[lastOp.field] = 1
    /\ all = EmptyDict
    /\ \E j \in DOMAIN values[lastOp.field] :
           j # lastOp.inst /\ values[lastOp.field][j].value = None

\* C3: when an instance with an entry in a field's store is collected, the
\* entry is removed: the store has no entry for it, its size has dropped by
\* one, and the entries of the other instances are unchanged.
C3_FinalisationPurges ==
    [][lastOp'.op = "collect" =>
          \A name \in DOMAIN values :
              lastOp'.inst \in DOMAIN values[name] =>
                  /\ lastOp'.inst \notin DOMAIN values'[name]
                  /\ Cardinality(DOMAIN values'[name])
                         = Cardinality(DOMAIN values[name]) - 1
                  /\ \A j \in DOMAIN values[name] \ {lastOp'.inst} :
                         /\ j \in DOMAIN values'[name]
                         /\ values'[name][j] = values[name][j]]_vars

\* an instance that had an entry was collected while another has one
C3_Witness ==
    /\ lastOp.op = "collect" /\ lastOp.had
    /\ \E name \in DOMAIN values : values[name] # EmptyDict

\* C4: a field's store holds at most one entry per live instance and no
\* entry for a collected one.
C4_OneEntryPerLiveInstance ==
    \A name \in DOMAIN values :
        /\ DOMAIN values[name] \subseteq live
        /\ \A i \in Instances :
               /\ Cardinality(reverse_lookup(values[name], weakref_ref(i)))
                      <= (IF i \in live THEN 1 ELSE 0)
               /\ i \in DOMAIN values[name] =>
                      values[name][i].ref = weakref_ref(i)

\* a re-write on an instance whose id was used by a collected instance
C4_Witness ==
    /\ lastOp.op = "set" /\ lastOp.had /\ lastOp.exc = ""
    /\ Cardinality(DOMAIN values[lastOp.field]) = 1
    /\ Cardinality(live) = 1
    /\ all # EmptyDict

\* the function last registered under the key in the log of register calls,
\* the default function when there is none
RECURSIVE LastRegistered(_, _, _)
LastRegistered(log, key, default_fn) ==
    IF log = <<>> THEN default_fn
    ELSE IF log[Len(log)][1] = key THEN log[Len(log)][2]
    ELSE LastRegistered(SubSeq(log, 1, Len(log) - 1), key, default_fn)

\* C5: a call with at least one argument invokes exactly the function last
\* registered under the first argument, or the default function when the
\* first argument is not registered, with all the arguments of the call.
C5_DispatchSelectsOneHandler ==
    (lastCall.op = "call" /\ Len(lastCall.args) >= 1) =>
        /\ lastCall.exc = ""
        /\ lastCall.by
               = LastRegistered(regLog, lastCall.args[1], default_function)
        /\ lastCall.with = lastCall.args

\* a call on a key that was registered twice, with different functions
C5_Witness ==
    /\ lastCall.op = "call" /\ Len(lastCall.args) = 2
    /\ lastCall.by # default_function
    /\ \E j, k \in 1..Len(regLog) :
           /\ j < k
           /\ regLog[j][1] = lastCall.args[1]
           /\ regLog[k][1] = lastCall.args[1]
           /\ regLog[j][2] # regLog[k][2]

\* C12: the mapping get_registry() returned shows, at every later moment,
\* exactly the keys registered so far, each with the function last
\* registered under it (so a registration or an overwrite made after the
\* mapping was obtained is visible through it), and an attempt to set or
\* delete an item through it raises and leaves the registrations unchanged.
C12_RegistryViewLive ==
    [][/\ registry_view'.held =>
              LET shown == ViewShows(registry_view', registry')
              IN  /\ DOMAIN shown = {regLog'[i][1] : i \in DOMAIN regLog'}
                  /\ \A k \in DOMAIN shown :
                         shown[k] = LastRegistered(regLog', k,
                                                   default_function')
       /\ lastCall'.op \in {"view_setitem", "view_delitem"} =>
              /\ lastCall'.exc = "TypeError"
              /\ registry' = registry]_vars

\* while the mapping is held, a key registered before is registered again
\* with another function
C12_Witness ==
    /\ registry_view.held
    /\ lastCall.op = "register"
    /\ \E j \in 1..(Len(regLog) - 1) :
           /\ regLog[j][1] = lastCall.args[1]
           /\ regLog[j][2] # regLog[Len(regLog)][2]

\* the messages recorded under each field name that has at least one error
RecordedMessages(d) ==
    [name \in {n \in DOMAIN d : Len(d[n]) >= 1} |->
        [k \in 1..Len(d[name]) |-> d[name][k].error_message]]

\* C6: in every registry state to_json() returns a text that parses to the
\* mapping from the field names with at least one recorded error to the
\* lists of their messages in insertion order.
C6_ToJsonRoundTrip ==
    lastOp.op = "to_json" =>
        /\ lastOp.exc = ""
        /\ json_loads(lastOp.text) = RecordedMessages(all)

\* C7 as stated: what is read through an instance without an entry differs
\* from what is read through an instance that stores a null.
C7_AbsentDistinctFromNull ==
    \A name \in DOMAIN values : \A i \in live, j \in DOMAIN values[name] :
        (i \notin DOMAIN values[name] /\ values[name][j].value = None) =>
            TypeChecker__get__(values[name], i)
                # TypeChecker__get__(values[name], j)

\* C7, amended: a read through an instance without an entry returns None,
\* the same as a read through an instance that stores a null; it differs
\* only from a read of a stored value that is not null.
C7_AbsentReadsNone ==
    \A name \in DOMAIN values : \A i \in live :
        i \notin DOMAIN values[name] =>
            /\ TypeChecker__get__(values[name], i) = None
            /\ \A j \in DOMAIN values[name] :
                   (TypeChecker__get__(values[name], j)
                        = TypeChecker__get__(values[name], i))
                   <=> values[name][j].value = None

\* one instance has no entry, another stores a null
C7_Witness ==
    \E name \in DOMAIN values : \E i \in live, j \in DOMAIN values[name] :
        /\ i \notin DOMAIN values[name]
        /\ values[name][j].value = None
        /\ lastOp.op = "set" /\ lastOp.inst = j /\ lastOp.value = None

\* the text matches one of the formats
MatchesAny(text, formats) ==
    \E k \in 1..Len(formats) : strptime(text, formats[k])

\* C8: a text written to a date field declared with a list of accepted
\* formats passes exactly when it matches one of the declared formats.
C8_DeclaredFormatsUsed ==
    [][(/\ IsSet
        /\ fields[lastOp'.field].type = "date"
        /\ Declared(lastOp'.field).acceptable_date_formats.some
        /\ isinstance_str(lastOp'.value))
       => /\ lastOp'.exc = ""
          /\ IF MatchesAny(lastOp'.value.s,
                           Declared(lastOp'.field).acceptable_date_formats.v)
             THEN all' = all
             ELSE OneErrorAppended(lastOp'.field)]_vars

\* C9: a write that reaches validation on a field whose declared kind has
\* no registered validator raises the lookup error and changes neither the
\* stores nor the registry.
C9_UnregisteredKindRaises ==
    [][(/\ IsSet
        /\ fields[lastOp'.field].type \notin DOMAIN registry
        /\ ReachesValidation(lastOp'.field, lastOp'.value))
       => /\ lastOp'.exc = "KeyError"
          /\ values' = values
          /\ all' = all]_vars

\* a write raised the lookup error while a store and the registry hold
\* something
C9_Witness ==
    /\ lastOp.op = "set" /\ lastOp.exc = "KeyError"
    /\ fields[lastOp.field].type \notin DOMAIN registry
    /\ all # EmptyDict
    /\ \E name \in DOMAIN values : values[name] # EmptyDict

C10_EnumValidation ==
    [][(/\ IsSet
        /\ fields[lastOp'.field].type = "enum"
        /\ ReachesValidation(lastOp'.field, lastOp'.value))
       => LET name == lastOp'.field
              value == lastOp'.value
              stored == /\ lastOp'.exc = ""
                        /\ lastOp'.inst \in DOMAIN values'[name]
                        /\ values'[name][lastOp'.inst].value = value
          IN  IF value = None THEN stored /\ all' = all
              ELSE IF fields[name].enum_list.some
              THEN /\ stored
                   /\ IF InList(value, fields[name].enum_list.v)
                      THEN all' = all
                      ELSE OneErrorAppended(name)
              ELSE /\ lastOp'.exc = "ValueError"
                   /\ all' = all
                   /\ values' = values]_vars

\* a value was written to an enum field declared without an allow-list
C10_Witness ==
    /\ lastOp.op = "set" /\ lastOp.exc = "ValueError"
    /\ fields[lastOp.field].type = "enum"
    /\ ~fields[lastOp.field].enum_list.some
    /\ lastOp.value # None


\* C16: a call, get_function and get_registry leave the registrations and
\* the default function unchanged; register(key) sets the function of key
\* (overwriting the one it had), leaves every other key as it was and
\* returns the function it was given; the set of registered keys never
\* shrinks.
C16_OnlyRegisterChanges ==
    [][/\ lastCall'.op \in {"call", "get_function", "get_registry"} =>
              /\ registry' = registry
              /\ default_function' = default_function
       /\ lastCall'.op = "register" =>
              LET key == lastCall'.args[1]
                  func == regLog'[Len(regLog')][2]
              IN  /\ DOMAIN registry' = DOMAIN registry \cup {key}
                  /\ registry'[key] = func
                  /\ \A k \in DOMAIN registry \ {key} :
                         registry'[k] = registry[k]
                  /\ lastCall'.ret = func
                  /\ default_function' = default_function
       /\ DOMAIN registry \subseteq DOMAIN registry']_vars

\* a registration overwrites one of two registered keys
C16_Witness ==
    /\ lastCall.op = "register"
    /\ Cardinality(DOMAIN registry) = 2
    /\ Len(regLog) = 3
    /\ lastCall.ret = registry[lastCall.args[1]]

\* C17: a call without positional arguments raises ValueError whatever is
\* registered, invokes neither the default function nor a registered one,
\* and leaves the registrations and the default function unchanged.
C17_NoArgumentsRaises ==
    [][(lastCall'.op = "call" /\ Len(lastCall'.args) = 0) =>
           /\ lastCall'.exc = "ValueError"
           /\ lastCall'.by = ""
           /\ lastCall'.with = <<>>
           /\ registry' = registry
           /\ default_function' = default_function]_vars

\* a call without arguments on a dispatcher with registered functions
C17_Witness ==
    /\ lastCall.op = "call" /\ Len(lastCall.args) = 0
    /\ lastCall.exc = "ValueError"
    /\ Cardinality(DOMAIN registry) >= 2


\* C13: in every step other than clear_errors, each field name of the
\* registry stays in it and the list it had is a prefix of the list it has
\* after the step: a write (valid or not), a re-write and a collection
\* remove no error and reorder none.
C13_RegistryAppendOnly ==
    [][lastOp'.op # "clear_errors" =>
           \A name \in DOMAIN all :
               /\ name \in DOMAIN all'
               /\ Len(all'[name]) >= Len(all[name])
               /\ SubSeq(all'[name], 1, Len(all[name])) = all[name]]_vars

\* a valid re-write of a field that has two different errors recorded
C13_Witness ==
    /\ lastOp.op = "set" /\ lastOp.field = "last_name" /\ lastOp.had
    /\ lastOp.value = PyStr(s_abc)
    /\ Len(ErrorsOf(all, "last_name")) = 2
    /\ all["last_name"][1] # all["last_name"][2]


\* the step reads through the mapping get_errors() returned
IsViewRead == lastOp'.op \in {"view_getitem", "view_get"}

\* C14: get_errors() returns a read-only snapshot: once the mapping is
\* held, no later step (an error appended, clear_errors) changes what it
\* shows, and a read through it leaves the registry unchanged.
C14_ErrorsViewSnapshot ==
    [][(errors_view.held /\ lastOp'.op # "get_errors") =>
           /\ ViewShows(errors_view', all') = ViewShows(errors_view, all)
           /\ IsViewRead => all' = all]_vars

\* C14, as the code has it: the mapping get_errors() returned shows the
\* registry as it is at every later moment (errors appended and
\* clear_errors show through it); setting or deleting an item through it
\* raises and changes nothing; view.get(name), and view[name] for a name
\* that has an entry, leave the registry unchanged; view[name] for a name
\* without an entry inserts an empty list under that name.
C14_ErrorsViewLive ==
    [][/\ errors_view'.held => ViewShows(errors_view', all') = all'
       /\ lastOp'.op \in {"view_setitem", "view_delitem"} =>
              lastOp'.exc = "TypeError" /\ all' = all
       /\ lastOp'.op = "view_get" => all' = all
       /\ lastOp'.op = "view_getitem" =>
              all' = IF lastOp'.field \in DOMAIN all THEN all
                     ELSE DictSet(all, lastOp'.field, <<>>)]_vars

\* while the mapping is held an error is appended under one name, and a
\* read of the other name has inserted an empty list
C14_Witness ==
    /\ errors_view.held
    /\ lastOp.op = "set"
    /\ \E n, m \in DOMAIN all : all[n] = <<>> /\ Len(all[m]) >= 1


\* C15: a write of a str to a text field declared with min_length and/or
\* max_length passes (returns without raising and appends nothing) exactly
\* when min_length <= len(value) <= max_length, each bound counting only if
\* declared; otherwise it appends exactly one error under the field.
C15_TextLengthInclusive ==
    [][(/\ IsSet
        /\ fields[lastOp'.field].type = "str"
        /\ lastOp'.value.t = "str"
        /\ \/ fields[lastOp'.field].min_length # Nil
           \/ fields[lastOp'.field].max_length # Nil)
       => LET name == lastOp'.field
              length == Len(lastOp'.value.s)
              inside ==
                  /\ fields[name].min_length # Nil
                         => fields[name].min_length <= length
                  /\ fields[name].max_length # Nil
                         => length <= fields[name].max_length
          IN  /\ lastOp'.exc = ""
              /\ inside => all' = all
              /\ ~inside => OneErrorAppended(name)]_vars


\* the missing-value errors recorded under the name
MissingErrors(name) ==
    {k \in 1..Len(ErrorsOf(all, name)) :
        all[name][k].error_message.tmpl = "mandatory"}

C19_WritesIsolated ==
    [][IsSet =>
           LET F == lastOp'.field
               A == lastOp'.inst
           IN  /\ \A n \in DOMAIN values \ {F} : values'[n] = values[n]
               /\ DOMAIN values'[F] \subseteq DOMAIN values[F] \cup {A}
               /\ \A j \in DOMAIN values[F] \ {A} :
                      j \in DOMAIN values'[F]
                      /\ values'[F][j] = values[F][j]
               /\ \A j \in live \ {A} :
                      TypeChecker__get__(values'[F], j)
                          = TypeChecker__get__(values[F], j)]_vars

\* a write to one of two fields through one of two instances, the other
\* instance holding another value for the field and the other field's
\* store holding an entry
C19_Witness ==
    /\ lastOp.op = "set" /\ lastOp.exc = ""
    /\ \E j \in live \ {lastOp.inst} :
           /\ j \in DOMAIN values[lastOp.field]
           /\ values[lastOp.field][j].value # lastOp.value
    /\ \E n \in DOMAIN values \ {lastOp.field} : values[n] # EmptyDict

====
